---- MODULE Spec2Model ----
(***************************************************************************)
(* Model of the scoring code of superblock-detector-bs.py:                 *)
(*   - calculate_quantile_score (lines 468-570), one action per block of   *)
(*     the function, on a vector layer with a source field, a target       *)
(*     field, a provider store and an edit buffer;                         *)
(*   - the ratio score step of phase_4_quantilskala (lines 1063-1081).     *)
(***************************************************************************)
EXTENDS Integers, Sequences, FiniteSets

\* ------------------------------------------------------------------ bounds
\* Largest number of features of a layer with arbitrary source values.
MaxFeat == 3
\* Largest numeric source value of such a layer (values are 0..MaxVal).
MaxVal == 2
\* Largest number of features of a layer of ascending numeric values.
MaxN == 8
\* Largest value of such a layer (values are 1..MaxSampleVal).
MaxSampleVal == 7
\* Largest small bounding-box width and height.
MaxW == 10
MaxH == 10

\* Largest number of blocks in the table of phase 4.
MaxBlocks == 2

\* The weights tried reach MaxOver tenths below 0 and above 100.
MaxOver == 2

\* Largest count of valid values for which the breakpoint indices are
\* computed on their own.
MaxCount == 2000

\* Largest number of lines in the filtered mobility network.
MaxLines == 3

\* --------------------------------------------------------------- variables
VARIABLES
    srcFieldPresent, \* field_name in [f.name() for f in layer.fields()]
    src,             \* feature[field_name] of every feature, in getFeatures() order
    hasField,        \* output_field in the layer's fields
    prov,            \* feature[output_field] as stored by the data provider
    editBuf,         \* pending (uncommitted) value of output_field per feature
    editable,        \* layer.isEditable()
    values,          \* the local list `values`
    quantiles,       \* the local dict `quantiles`, as <<q1, ..., q6>>
    cursor,          \* position of the scoring loop in getFeatures()
    updated_count,   \* the local counter `updated_count`
    pc,              \* control location inside calculate_quantile_score
    result,          \* "running", "returned" or "raised"
    pre,             \* the layer as it was when the call started
    width,           \* "width" of a bounding-box feature
    height,          \* "height" of a bounding-box feature
    score_verhaeltnis, \* "score_verhaeltnis" of that feature
    rpc,             \* control location of the ratio step
    dir_ok,          \* import_path is given and os.path.isdir(import_path)
    weight_index,    \* the local weight_index of processAlgorithm
    geb_weight,      \* the local geb_weight
    verh_weight,     \* the local verh_weight
    has_gklas,       \* "GKLAS" in the fields of the building layer
    fail_at,         \* the call of the run that raises, "none" if none does
    existing,        \* the i with _basisdata_superblock_i on disk before the run
    index,           \* the local index of create_unique_project_folder
    project_folder,  \* the local project_folder: NULL is None
    disk,            \* the paths this run created and that are on disk
    started,         \* the phases that were started, in order
    completed,       \* the phases that returned, in order
    run_pc,          \* control location inside processAlgorithm
    run_result,      \* "running", "returned" or "raised"
    p4_dirs_exist,   \* temp_path and final_output_dir exist
    p4_blocks_exist, \* 4_liegenschaftsflaechen_blocks.gpkg exists
    p4_gwr_exist,    \* gwr_bund_bs_lv95.gpkg exists
    p4_geb_weight,   \* the parameter geb_weight of phase_4_quantilskala
    p4_verh_weight,  \* the parameter verh_weight of phase_4_quantilskala
    p4_rule,         \* the rounding rule of the expression engine
    blocks,          \* per block: score_gebaeude_sum after the join, and
                     \* width and height of its bounding box
    tbl_norm,        \* score_geb_sum_norm per block, <<>> before the step
    tbl_verh,        \* score_verhaeltnis per block, <<>> before the step
    tbl_final,       \* final_score per block, <<>> before the step
    p4_files,        \* the files phase 4 wrote and that are on disk
    p4_steps,        \* geoprocessing steps phase 4 has run
    p4_log,          \* lines phase 4 appended to the process log
    p4_pc,           \* control location inside phase_4_quantilskala
    p4_result,       \* "running", "returned" or "raised"
    c_rule,          \* the rounding rule of the expression engine
    c_geb_weight,    \* geb_weight in the final score formula
    c_verh_weight,   \* verh_weight in the final score formula
    c_norm,          \* "score_geb_sum_norm" of a feature of temp_joined
    c_verh,          \* "score_verhaeltnis" of that feature
    final_score,     \* "final_score" of that feature
    cpc,             \* control location of the final score step
    len_values,      \* n = len(values) in calculate_quantile_score
    indices,         \* the six indices int(n * factor), <<>> before the step
    ipc,             \* control location of the index step
    earlier_calls,   \* earlier calls of calculate_quantile_score on the layer
    first_view,      \* feature[output_field] per feature after the first call
    gefiltert,       \* the lines of the hierarchy-filtered network
    hits_buffer,     \* the filtered lines that intersect the dissolved buffer
    touching,        \* the pairs {a, b} of filtered lines that intersect
    negate_honoured, \* extractbylocation of this build obeys 'NEGATE'
    intersecting_lines, \* the local intersecting_lines
    bereinigt,       \* the lines written to bereinigt_path
    clean_pc,        \* control location inside the cleaning step of phase 2
    clean_result,    \* "running", "cleaned" or "raised"
    r_dirs,          \* the i with _basisdata_superblock_i in the shared target
    r_index,         \* per run: the local index of create_unique_project_folder
    r_made,          \* per run: the i whose folder its os.makedirs created
    r_project_folder, \* per run: the local project_folder of processAlgorithm
    r_pc,            \* per run: control location
    r_result         \* per run: "running", "returned" or "raised"

qvars == <<srcFieldPresent, src, hasField, prov, editBuf, editable, values,
           quantiles, cursor, updated_count, pc, result, pre>>
rvars == <<width, height, score_verhaeltnis, rpc>>
runvars == <<dir_ok, weight_index, geb_weight, verh_weight, has_gklas,
             fail_at, existing, index, project_folder, disk, started,
             completed, run_pc, run_result>>
p4inputs == <<p4_dirs_exist, p4_blocks_exist, p4_gwr_exist, p4_geb_weight,
              p4_verh_weight, p4_rule, blocks>>
p4vars == <<p4inputs, tbl_norm, tbl_verh, tbl_final, p4_files, p4_steps,
            p4_log, p4_pc, p4_result>>
cvars == <<c_rule, c_geb_weight, c_verh_weight, c_norm, c_verh, final_score,
           cpc>>
ivars == <<len_values, indices, ipc>>
callvars == <<earlier_calls, first_view>>
cleanvars == <<gefiltert, hits_buffer, touching, negate_honoured,
               intersecting_lines, bereinigt, clean_pc, clean_result>>
racevars == <<r_dirs, r_index, r_made, r_project_folder, r_pc, r_result>>
vars == <<qvars, rvars, runvars, p4vars, cvars, ivars, callvars, cleanvars, racevars>>

\* What calculate_quantile_score leaves alone, and what the ratio step does.
qframe == <<rvars, runvars, p4vars, cvars, ivars, callvars, cleanvars, racevars>>
rframe == <<qvars, runvars, p4vars, cvars, ivars, callvars, cleanvars, racevars>>

\* ------------------------------------------------------------ attribute values
\* An attribute value that may be NULL: <<>> is NULL, <<v>> holds v.
NULL == <<>>
Some(v) == <<v>>

\* Source attribute values: NULL, the empty string, a text float() rejects,
\* a number, or a text float() accepts (num is what it parses to).
SrcNull == [kind |-> "null", num |-> 0]
SrcEmpty == [kind |-> "empty", num |-> 0]
SrcText == [kind |-> "text", num |-> 0]
SrcNum(v) == [kind |-> "num", num |-> v]
SrcNumText(v) == [kind |-> "numtext", num |-> v]

\* value is not None and value != NULL and value != ''
NotBlank(value) == value.kind \notin {"null", "empty"}

\* float(value) succeeds (no ValueError / TypeError)
Convertible(value) == value.kind \in {"num", "numtext"}

\* float(value)
ToFloat(value) == value.num

\* A feature's source value takes part in the scoring.
ValidSrc(value) == NotBlank(value) /\ Convertible(value)

\* ------------------------------------------------------------------ sorting
\* list.sort(): insertion of x into an ascending sequence s.
RECURSIVE Insert(_, _)
Insert(x, s) ==
    IF s = <<>> THEN <<x>>
    ELSE IF x <= Head(s) THEN <<x>> \o s
    ELSE <<Head(s)>> \o Insert(x, Tail(s))

\* Mutant of Sort: the list is left in collection order.
SortIdentity(s) == s

RECURSIVE Sort(_)
Sort(s) == IF s = <<>> THEN <<>> ELSE Insert(Head(s), Sort(Tail(s)))

\* ---------------------------------------------------------------- quantiles
\* The six factors of lines 513-518, in millionths.
QuantileFactors == <<142857, 285714, 428571, 571429, 714286, 857143>>

\* floor(n * k / 7), the index the exact fraction k/7 would give.
QuantileIndexExact(n, k) == (n * k) \div 7

\* Mutant of QuantileIndex: the product is rounded to the nearest integer.
QuantileIndexRounded(n, k) == (n * QuantileFactors[k] + 500000) \div 1000000

\* int(n * 0.142857) ... int(n * 0.857143): 0-based index of breakpoint k.
QuantileIndex(n, k) == (n * QuantileFactors[k]) \div 1000000

\* Mutant of Quantiles: every breakpoint is read one position lower.
QuantilesOneBelow(vals) ==
    [k \in 1..6 |->
        vals[IF QuantileIndex(Len(vals), k) = 0 THEN 1
             ELSE QuantileIndex(Len(vals), k)]]

\* values[int(n * factor)] for the six factors.
Quantiles(vals) ==
    [k \in 1..6 |-> vals[QuantileIndex(Len(vals), k) + 1]]

\* Mutant of Score: the first rung compares with < instead of <=.
ScoreStrictFirst(value, q) ==
    IF value < q[1] THEN -3
    ELSE IF value <= q[2] THEN -2
    ELSE IF value <= q[3] THEN -1
    ELSE IF value <= q[4] THEN 0
    ELSE IF value <= q[5] THEN 1
    ELSE IF value <= q[6] THEN 2
    ELSE 3

\* Mutant of Score: the rungs of q2 and q3 are exchanged.
ScoreSwapped(value, q) ==
    IF value <= q[1] THEN -3
    ELSE IF value <= q[2] THEN -1
    ELSE IF value <= q[3] THEN -2
    ELSE IF value <= q[4] THEN 0
    ELSE IF value <= q[5] THEN 1
    ELSE IF value <= q[6] THEN 2
    ELSE 3

\* Mutant of Score: the last rung compares with < instead of <=.
ScoreStrictLast(value, q) ==
    IF value <= q[1] THEN -3
    ELSE IF value <= q[2] THEN -2
    ELSE IF value <= q[3] THEN -1
    ELSE IF value <= q[4] THEN 0
    ELSE IF value <= q[5] THEN 1
    ELSE IF value < q[6] THEN 2
    ELSE 3

\* Mutant of Score: the ladder is read from the top, as for the ratio score.
ScoreFromTop(value, q) ==
    IF value >= q[6] THEN 3
    ELSE IF value >= q[5] THEN 2
    ELSE IF value >= q[4] THEN 1
    ELSE IF value >= q[3] THEN 0
    ELSE IF value >= q[2] THEN -1
    ELSE IF value >= q[1] THEN -2
    ELSE -3

\* The if / elif ladder of lines 535-549.
Score(value, q) ==
    IF value <= q[1] THEN -3
    ELSE IF value <= q[2] THEN -2
    ELSE IF value <= q[3] THEN -1
    ELSE IF value <= q[4] THEN 0
    ELSE IF value <= q[5] THEN 1
    ELSE IF value <= q[6] THEN 2
    ELSE 3

\* ------------------------------------------------------------------- layers
Features == 1..Len(src)

\* feature[output_field] as the layer shows it: the pending edit, if any.
View(f) == IF editBuf[f] # NULL THEN editBuf[f] ELSE prov[f]

\* An edit buffer without pending edits.
NoEdits(n) == [f \in 1..n |-> NULL]

SrcVals ==
    {SrcNull, SrcEmpty, SrcText, SrcNumText(1)} \cup {SrcNum(v) : v \in 0..MaxVal}

\* Values the target field may hold before the call.
PriorVals == {NULL, Some(7)}

\* Ascending sequences of length n over 1..MaxSampleVal.
RECURSIVE Ascending(_)
Ascending(n) ==
    IF n = 0 THEN {<<>>}
    ELSE UNION {{Append(s, v) :
                    v \in (IF s = <<>> THEN 1 ELSE s[Len(s)])..MaxSampleVal} :
                s \in Ascending(n - 1)}

\* ------------------------------------------------------------ initial states
\* The ratio step is not running.
RatioIdle ==
    /\ width = 0
    /\ height = 0
    /\ score_verhaeltnis = NULL
    /\ rpc = "idle"

\* processAlgorithm is not running.
RunIdle ==
    /\ dir_ok = TRUE
    /\ weight_index = 0
    /\ geb_weight = 0
    /\ verh_weight = 0
    /\ has_gklas = TRUE
    /\ fail_at = "none"
    /\ existing = {}
    /\ index = 0
    /\ project_folder = NULL
    /\ disk = {}
    /\ started = <<>>
    /\ completed = <<>>
    /\ run_pc = "idle"
    /\ run_result = "running"

\* phase_4_quantilskala is not running.
Phase4Idle ==
    /\ p4_dirs_exist = TRUE
    /\ p4_blocks_exist = TRUE
    /\ p4_gwr_exist = TRUE
    /\ p4_geb_weight = 0
    /\ p4_verh_weight = 0
    /\ p4_rule = "half_away"
    /\ blocks = <<>>
    /\ tbl_norm = <<>>
    /\ tbl_verh = <<>>
    /\ tbl_final = <<>>
    /\ p4_files = {}
    /\ p4_steps = 0
    /\ p4_log = 0
    /\ p4_pc = "idle"
    /\ p4_result = "running"

\* The final score step is not running.
CompositeIdle ==
    /\ c_rule = "half_away"
    /\ c_geb_weight = 0
    /\ c_verh_weight = 0
    /\ c_norm = NULL
    /\ c_verh = NULL
    /\ final_score = NULL
    /\ cpc = "idle"

\* The index step is not running.
IndexIdle ==
    /\ len_values = 0
    /\ indices = <<>>
    /\ ipc = "idle"

\* No earlier call of calculate_quantile_score was made on the layer.
CallsIdle ==
    /\ earlier_calls = 0
    /\ first_view = <<>>

\* The cleaning step of phase 2 is not running.
CleanIdle ==
    /\ gefiltert = {}
    /\ hits_buffer = {}
    /\ touching = {}
    /\ negate_honoured = TRUE
    /\ intersecting_lines = {}
    /\ bereinigt = {}
    /\ clean_pc = "idle"
    /\ clean_result = "running"

\* No two runs share a target directory.
RaceIdle ==
    /\ r_dirs = {}
    /\ r_index = <<>>
    /\ r_made = <<>>
    /\ r_project_folder = <<>>
    /\ r_pc = <<>>
    /\ r_result = <<>>

\* The state at the call of calculate_quantile_score(layer, field_name,
\* output_field, feedback): the layer is loaded and not in editing mode.
CallStart ==
    /\ editBuf = NoEdits(Len(src))
    /\ editable = FALSE
    /\ values = <<>>
    /\ quantiles = <<>>
    /\ cursor = 0
    /\ updated_count = 0
    /\ pc = "validate"
    /\ result = "running"
    /\ pre = [hasField |-> hasField, prov |-> prov, src |-> src]

\* A layer of at most MaxFeat features with any source values, with or
\* without the source field and the target field.
InitLayer ==
    /\ \E n \in 0..MaxFeat :
         /\ srcFieldPresent \in BOOLEAN
         /\ src \in (IF srcFieldPresent THEN [1..n -> SrcVals]
                                        ELSE {[f \in 1..n |-> SrcNull]})
         /\ hasField \in BOOLEAN
         /\ prov \in (IF hasField THEN [1..n -> PriorVals]
                                  ELSE {[f \in 1..n |-> NULL]})
    /\ CallStart
    /\ RatioIdle
    /\ RunIdle
    /\ Phase4Idle
    /\ CompositeIdle
    /\ IndexIdle
    /\ CallsIdle
    /\ CleanIdle
    /\ RaceIdle

\* A layer of at most MaxN features whose source values are numbers stored
\* in ascending order, without the target field.
InitSample ==
    /\ \E n \in 1..MaxN :
         \E s \in Ascending(n) : src = [f \in 1..n |-> SrcNum(s[f])]
    /\ srcFieldPresent = TRUE
    /\ hasField = FALSE
    /\ prov = [f \in 1..Len(src) |-> NULL]
    /\ CallStart
    /\ RatioIdle
    /\ RunIdle
    /\ Phase4Idle
    /\ CompositeIdle
    /\ IndexIdle
    /\ CallsIdle
    /\ CleanIdle
    /\ RaceIdle

Init == InitLayer \/ InitSample

\* --------------------------------------------- calculate_quantile_score
\* Lines 486-491: the source field must exist.
ValidateField ==
    /\ pc = "validate"
    /\ pc' = IF srcFieldPresent THEN "collect" ELSE "except"
    /\ UNCHANGED <<srcFieldPresent, src, hasField, prov, editBuf, editable,
                   values, quantiles, cursor, updated_count, result, pre>>
    /\ UNCHANGED qframe

\* The values the loop of lines 495-501 appends, for the features f..Len(s).
RECURSIVE Collected(_, _)
Collected(s, f) ==
    IF f > Len(s) THEN <<>>
    ELSE IF NotBlank(s[f]) /\ Convertible(s[f])
         THEN <<ToFloat(s[f])>> \o Collected(s, f + 1)
         ELSE Collected(s, f + 1)

\* Lines 493-501: collect the convertible values, skip the others.
CollectValues ==
    /\ pc = "collect"
    /\ values' = Collected(src, 1)
    /\ pc' = "check"
    /\ UNCHANGED <<srcFieldPresent, src, hasField, prov, editBuf, editable,
                   quantiles, cursor, updated_count, result, pre>>
    /\ UNCHANGED qframe

\* Mutant of RaiseEmpty: the check stands after the creation of the field.
RaiseEmptyAfterAddField ==
    /\ pc = "check"
    /\ values = <<>>
    /\ hasField' = TRUE
    /\ pc' = "except"
    /\ UNCHANGED <<srcFieldPresent, src, prov, editBuf, editable, values,
                   quantiles, cursor, updated_count, result, pre>>
    /\ UNCHANGED qframe

\* Lines 503-504: no valid value.
RaiseEmpty ==
    /\ pc = "check"
    /\ values = <<>>
    /\ pc' = "except"
    /\ UNCHANGED <<srcFieldPresent, src, hasField, prov, editBuf, editable,
                   values, quantiles, cursor, updated_count, result, pre>>
    /\ UNCHANGED qframe

\* Lines 506-519: sort the values and read the six breakpoints.
ComputeQuantiles ==
    /\ pc = "check"
    /\ values # <<>>
    /\ values' = Sort(values)
    /\ quantiles' = Quantiles(values')
    /\ pc' = "add_field"
    /\ UNCHANGED <<srcFieldPresent, src, hasField, prov, editBuf, editable,
                   cursor, updated_count, result, pre>>
    /\ UNCHANGED qframe

\* Lines 521-525: add the target field to the provider if it is missing.
AddField ==
    /\ pc = "add_field"
    /\ hasField' = TRUE
    /\ pc' = "start_editing"
    /\ UNCHANGED <<srcFieldPresent, src, prov, editBuf, editable, values,
                   quantiles, cursor, updated_count, result, pre>>
    /\ UNCHANGED qframe

\* Lines 528-529: open the editing session.
StartEditing ==
    /\ pc = "start_editing"
    /\ editable' = TRUE
    /\ updated_count' = 0
    /\ cursor' = 1
    /\ pc' = "score"
    /\ UNCHANGED <<srcFieldPresent, src, hasField, prov, editBuf, values,
                   quantiles, result, pre>>
    /\ UNCHANGED qframe

\* Mutant of ScoreFeature: the score is added to the value the target field
\* holds.
ScoreFeatureAdds ==
    /\ pc = "score"
    /\ cursor <= Len(src)
    /\ NotBlank(src[cursor])
    /\ Convertible(src[cursor])
    /\ editBuf' = [editBuf EXCEPT
                     ![cursor] =
                        Some(Score(ToFloat(src[cursor]), quantiles)
                             + (IF View(cursor) = NULL THEN 0
                                ELSE View(cursor)[1]))]
    /\ updated_count' = updated_count + 1
    /\ cursor' = cursor + 1
    /\ UNCHANGED <<srcFieldPresent, hasField, prov, editable, values,
                   quantiles, pc, result, pre, src>>
    /\ UNCHANGED qframe

\* Mutant of ScoreFeature: the score is assigned to the source field.
ScoreFeatureWritesSource ==
    /\ pc = "score"
    /\ cursor <= Len(src)
    /\ NotBlank(src[cursor])
    /\ Convertible(src[cursor])
    /\ src' = [src EXCEPT
                 ![cursor] = SrcNum(Score(ToFloat(src[cursor]), quantiles))]
    /\ updated_count' = updated_count + 1
    /\ cursor' = cursor + 1
    /\ UNCHANGED <<srcFieldPresent, hasField, prov, editBuf, editable, values,
                   quantiles, pc, result, pre>>
    /\ UNCHANGED qframe

\* Lines 530-553: the next feature has a valid value and is scored.
ScoreFeature ==
    /\ pc = "score"
    /\ cursor <= Len(src)
    /\ NotBlank(src[cursor])
    /\ Convertible(src[cursor])
    /\ editBuf' = [editBuf EXCEPT
                     ![cursor] = Some(Score(ToFloat(src[cursor]), quantiles))]
    /\ updated_count' = updated_count + 1
    /\ cursor' = cursor + 1
    /\ UNCHANGED <<srcFieldPresent, src, hasField, prov, editable, values,
                   quantiles, pc, result, pre>>
    /\ UNCHANGED qframe

\* Mutant of SkipFeature: the ValueError of float(value) is not caught.
SkipFeatureUncaught ==
    /\ pc = "score"
    /\ cursor <= Len(src)
    /\ ~(NotBlank(src[cursor]) /\ Convertible(src[cursor]))
    /\ IF NotBlank(src[cursor])
       THEN pc' = "except" /\ cursor' = cursor
       ELSE pc' = pc /\ cursor' = cursor + 1
    /\ UNCHANGED <<srcFieldPresent, src, hasField, prov, editBuf, editable,
                   values, quantiles, updated_count, result, pre>>
    /\ UNCHANGED qframe

\* Mutant of SkipFeature: a skipped feature is given the default score -3.
SkipFeatureDefault ==
    /\ pc = "score"
    /\ cursor <= Len(src)
    /\ ~(NotBlank(src[cursor]) /\ Convertible(src[cursor]))
    /\ editBuf' = [editBuf EXCEPT ![cursor] = Some(-3)]
    /\ cursor' = cursor + 1
    /\ UNCHANGED <<srcFieldPresent, src, hasField, prov, editable, values,
                   quantiles, updated_count, pc, result, pre>>
    /\ UNCHANGED qframe

\* Lines 530-532 and 554-555: the next feature has a null, empty or
\* unconvertible value and is passed over.
SkipFeature ==
    /\ pc = "score"
    /\ cursor <= Len(src)
    /\ ~(NotBlank(src[cursor]) /\ Convertible(src[cursor]))
    /\ cursor' = cursor + 1
    /\ UNCHANGED <<srcFieldPresent, src, hasField, prov, editBuf, editable,
                   values, quantiles, updated_count, pc, result, pre>>
    /\ UNCHANGED qframe

\* Lines 557-565: commitChanges() writes the pending edits to the provider
\* and leaves editing mode, or fails and returns False; the return value is
\* not looked at, and the function returns.
CommitChanges ==
    /\ pc = "score"
    /\ cursor > Len(src)
    /\ \E ok \in BOOLEAN :
         IF ok
         THEN /\ prov' = [f \in Features |-> View(f)]
              /\ editBuf' = NoEdits(Len(src))
              /\ editable' = FALSE
         ELSE UNCHANGED <<prov, editBuf, editable>>
    /\ pc' = "done"
    /\ result' = "returned"
    /\ UNCHANGED <<srcFieldPresent, src, hasField, values, quantiles, cursor,
                   updated_count, pre>>
    /\ UNCHANGED qframe

\* Mutant of Except: the editing session is left as it is.
ExceptKeepsEdits ==
    /\ pc = "except"
    /\ pc' = "done"
    /\ result' = "raised"
    /\ UNCHANGED <<srcFieldPresent, src, hasField, prov, editBuf, editable,
                   values, quantiles, cursor, updated_count, pre>>
    /\ UNCHANGED qframe

\* Lines 567-570: roll back an open editing session and raise.
Except ==
    /\ pc = "except"
    /\ IF editable
       THEN editBuf' = NoEdits(Len(src)) /\ editable' = FALSE
       ELSE UNCHANGED <<editBuf, editable>>
    /\ pc' = "done"
    /\ result' = "raised"
    /\ UNCHANGED <<srcFieldPresent, src, hasField, prov, values, quantiles,
                   cursor, updated_count, pre>>
    /\ UNCHANGED qframe

Next ==
    \/ ValidateField
    \/ CollectValues
    \/ RaiseEmpty
    \/ ComputeQuantiles
    \/ AddField
    \/ StartEditing
    \/ ScoreFeature
    \/ SkipFeature
    \/ CommitChanges
    \/ Except

Spec == Init /\ [][Next]_vars

\* ------------------------------------ phase_4_quantilskala: the ratio score
\* The thresholds of the CASE expression (lines 1072-1077), in tenths of a
\* percent, from the highest.
RatioThresholds == <<857, 714, 571, 428, 285, 142>>

\* @p >= t / 10 with p = 100.0 * "width" / "height". A division by zero
\* gives NULL in a QGIS expression, and a comparison with NULL is not true.
RatioAtLeast(w, h, t) == h # 0 /\ 1000 * w >= t * h

\* Mutant of RatioScore: the comparisons are > instead of >=.
RatioScoreStrict(w, h) ==
    IF h # 0 /\ 1000 * w > RatioThresholds[1] * h THEN 3
    ELSE IF h # 0 /\ 1000 * w > RatioThresholds[2] * h THEN 2
    ELSE IF h # 0 /\ 1000 * w > RatioThresholds[3] * h THEN 1
    ELSE IF h # 0 /\ 1000 * w > RatioThresholds[4] * h THEN 0
    ELSE IF h # 0 /\ 1000 * w > RatioThresholds[5] * h THEN -1
    ELSE IF h # 0 /\ 1000 * w > RatioThresholds[6] * h THEN -2
    ELSE -3

\* The CASE expression of lines 1069-1079.
RatioScore(w, h) ==
    IF RatioAtLeast(w, h, RatioThresholds[1]) THEN 3
    ELSE IF RatioAtLeast(w, h, RatioThresholds[2]) THEN 2
    ELSE IF RatioAtLeast(w, h, RatioThresholds[3]) THEN 1
    ELSE IF RatioAtLeast(w, h, RatioThresholds[4]) THEN 0
    ELSE IF RatioAtLeast(w, h, RatioThresholds[5]) THEN -1
    ELSE IF RatioAtLeast(w, h, RatioThresholds[6]) THEN -2
    ELSE -3

\* Widths and heights of the bounding boxes: the small ones, and the ones
\* that put p on a threshold and next to it.
TieWidths == {141, 142, 143, 284, 285, 286, 427, 428, 429, 570, 571, 572,
              713, 714, 715, 856, 857, 858, 1000}
Widths == 0..MaxW \cup TieWidths
Heights == 0..MaxH \cup {1000}

\* The calculate_quantile_score call is not running.
QuantileIdle ==
    /\ srcFieldPresent = TRUE
    /\ src = <<>>
    /\ hasField = FALSE
    /\ prov = <<>>
    /\ editBuf = <<>>
    /\ editable = FALSE
    /\ values = <<>>
    /\ quantiles = <<>>
    /\ cursor = 0
    /\ updated_count = 0
    /\ pc = "idle"
    /\ result = "running"
    /\ pre = [hasField |-> FALSE, prov |-> <<>>, src |-> <<>>]

\* A feature of the bounding-box layer before the field calculator runs.
InitRatio ==
    /\ width \in Widths
    /\ height \in Heights
    /\ score_verhaeltnis = NULL
    /\ rpc = "ready"
    /\ QuantileIdle
    /\ RunIdle
    /\ Phase4Idle
    /\ CompositeIdle
    /\ IndexIdle
    /\ CallsIdle
    /\ CleanIdle
    /\ RaceIdle

\* Lines 1063-1081: the field calculator writes score_verhaeltnis.
RatioStep ==
    /\ rpc = "ready"
    /\ score_verhaeltnis' = Some(RatioScore(width, height))
    /\ rpc' = "done"
    /\ UNCHANGED <<width, height>>
    /\ UNCHANGED rframe

NextRatio == RatioStep

SpecRatio == InitRatio /\ [][NextRatio]_vars

\* ------------------- calculate_quantile_score: failures and repeated calls
\* Lines 528-565: a call made inside the editing session (getFeatures,
\* updateFeature, commitChanges, updateExtents) raises an exception.
EditingRaises ==
    /\ pc = "score"
    /\ pc' = "except"
    /\ UNCHANGED <<srcFieldPresent, src, hasField, prov, editBuf, editable,
                   values, quantiles, cursor, updated_count, result, pre>>
    /\ UNCHANGED qframe

\* calculate_quantile_score is called once more on the layer the first call
\* returned from, with the same source and target fields (lines 468-484).
CallAgain ==
    /\ pc = "done"
    /\ result = "returned"
    /\ earlier_calls = 0
    /\ earlier_calls' = 1
    /\ first_view' = [f \in Features |-> View(f)]
    /\ values' = <<>>
    /\ quantiles' = <<>>
    /\ cursor' = 0
    /\ updated_count' = 0
    /\ pc' = "validate"
    /\ result' = "running"
    /\ pre' = [hasField |-> hasField, prov |-> prov, src |-> src]
    /\ UNCHANGED <<srcFieldPresent, src, hasField, prov, editBuf, editable>>
    /\ UNCHANGED <<rvars, runvars, p4vars, cvars, ivars, cleanvars, racevars>>

NextCalls ==
    \/ ValidateField
    \/ CollectValues
    \/ RaiseEmpty
    \/ ComputeQuantiles
    \/ AddField
    \/ StartEditing
    \/ ScoreFeature
    \/ SkipFeature
    \/ CommitChanges
    \/ Except
    \/ EditingRaises
    \/ CallAgain

SpecCalls == InitLayer /\ [][NextCalls]_vars

\* ------------------------------ calculate_quantile_score: the six indices
\* What the index step leaves alone.
iframe == <<qvars, rvars, runvars, p4vars, cvars, callvars, cleanvars, racevars>>

\* Line 508 for a list of 1..MaxCount valid values.
InitIndex ==
    /\ len_values \in 1..MaxCount
    /\ indices = <<>>
    /\ ipc = "ready"
    /\ QuantileIdle
    /\ RatioIdle
    /\ RunIdle
    /\ Phase4Idle
    /\ CompositeIdle
    /\ CallsIdle
    /\ CleanIdle
    /\ RaceIdle

\* Lines 512-519: the six indices int(n * factor).
IndexStep ==
    /\ ipc = "ready"
    /\ indices' = [k \in 1..6 |-> QuantileIndex(len_values, k)]
    /\ ipc' = "done"
    /\ UNCHANGED len_values
    /\ UNCHANGED iframe

NextIndex == IndexStep

SpecIndex == InitIndex /\ [][NextIndex]_vars

\* ------------------------------------------- double-precision arithmetic
\* The numbers of the final score formula are IEEE 754 doubles. A double is
\* held as a sign and a magnitude counted in units of 2^-FracBits, the
\* magnitude as a sequence of limbs of LimbBits bits, lowest limb first,
\* without leading zero limbs. Every double met here is a whole number of
\* such units.
LimbBits == 11

LimbBase == 2048

FracLimbs == 6

FracBits == FracLimbs * LimbBits

\* Significant bits of a double.
MantissaBits == 53

RECURSIVE Pow2(_)
Pow2(k) == IF k = 0 THEN 1 ELSE 2 * Pow2(k - 1)

RECURSIVE BitLen(_)
BitLen(n) == IF n = 0 THEN 0 ELSE 1 + BitLen(n \div 2)

Abs(n) == IF n < 0 THEN -n ELSE n

RECURSIVE NatLimbs(_)
NatLimbs(n) ==
    IF n = 0 THEN <<>> ELSE <<n % LimbBase>> \o NatLimbs(n \div LimbBase)

RECURSIVE LimbsNat(_)
LimbsNat(x) ==
    IF x = <<>> THEN 0 ELSE Head(x) + LimbBase * LimbsNat(Tail(x))

RECURSIVE Trim(_)
Trim(x) ==
    IF x = <<>> THEN <<>>
    ELSE IF x[Len(x)] = 0 THEN Trim(SubSeq(x, 1, Len(x) - 1))
    ELSE x

LimbAt(x, i) == IF i <= Len(x) THEN x[i] ELSE 0

\* x * LimbBase^k and x \div LimbBase^k.
ShlLimbs(x, k) == IF x = <<>> THEN <<>> ELSE [i \in 1..k |-> 0] \o x

ShrLimbs(x, k) == IF Len(x) <= k THEN <<>> ELSE SubSeq(x, k + 1, Len(x))

\* Bits of the magnitude x.
LimbsBitLen(x) ==
    IF x = <<>> THEN 0 ELSE (Len(x) - 1) * LimbBits + BitLen(x[Len(x)])

RECURSIVE AddFrom(_, _, _, _)
AddFrom(x, y, i, c) ==
    IF i > Len(x) /\ i > Len(y)
    THEN (IF c = 0 THEN <<>> ELSE <<c>>)
    ELSE LET s == LimbAt(x, i) + LimbAt(y, i) + c
         IN  <<s % LimbBase>> \o AddFrom(x, y, i + 1, s \div LimbBase)

LAdd(x, y) == AddFrom(x, y, 1, 0)

RECURSIVE SubFrom(_, _, _, _)
SubFrom(x, y, i, b) ==
    IF i > Len(x) THEN <<>>
    ELSE LET d == LimbAt(x, i) - LimbAt(y, i) - b
         IN  <<d % LimbBase>> \o SubFrom(x, y, i + 1, IF d < 0 THEN 1 ELSE 0)

\* x - y for x >= y.
LSub(x, y) == Trim(SubFrom(x, y, 1, 0))

RECURSIVE LessFrom(_, _, _)
LessFrom(x, y, i) ==
    IF i = 0 THEN FALSE
    ELSE IF x[i] # y[i] THEN x[i] < y[i]
    ELSE LessFrom(x, y, i - 1)

LLess(x, y) ==
    IF Len(x) # Len(y) THEN Len(x) < Len(y) ELSE LessFrom(x, y, Len(x))

RECURSIVE MulFrom(_, _, _, _)
MulFrom(x, n, i, c) ==
    IF i > Len(x) THEN NatLimbs(c)
    ELSE LET s == x[i] * n + c
         IN  <<s % LimbBase>> \o MulFrom(x, n, i + 1, s \div LimbBase)

\* x * n for a natural number n.
LMulNat(x, n) == Trim(MulFrom(x, n, 1, 0))

\* Quotient and remainder of the limbs 1..i of x, taken after remainder r
\* of the higher limbs, by the natural number d.
RECURSIVE DivFrom(_, _, _, _)
DivFrom(x, d, i, r) ==
    IF i = 0 THEN [q |-> <<>>, r |-> r]
    ELSE LET cur == LimbBase * r + x[i]
             rest == DivFrom(x, d, i - 1, cur % d)
         IN  [q |-> Append(rest.q, cur \div d), r |-> rest.r]

LDivNat(x, d) ==
    LET res == DivFrom(x, d, Len(x), 0) IN [q |-> Trim(res.q), r |-> res.r]

\* Round a magnitude to MantissaBits significant bits, to nearest and on a
\* tie to even; sticky says that the exact value is a little above x.
RoundSig(x, sticky) ==
    IF LimbsBitLen(x) <= MantissaBits THEN x
    ELSE LET d == LimbsBitLen(x) - MantissaBits
             res == LDivNat(x, Pow2(d))
             half == Pow2(d - 1)
             up == \/ res.r > half
                   \/ res.r = half /\ (sticky \/ LimbAt(res.q, 1) % 2 = 1)
         IN  LMulNat(IF up THEN LAdd(res.q, <<1>>) ELSE res.q, Pow2(d))

\* The double nearest to w / 100: Python's geb_weight/100. The f-string
\* prints its shortest repr and the expression parser reads the same double.
DoubleOfPercent(w) ==
    LET res == LDivNat(ShlLimbs(NatLimbs(Abs(w)), FracLimbs), 100)
    IN  [neg |-> w < 0, mag |-> RoundSig(res.q, res.r # 0)]

\* The product of a double and an integer attribute value, as a double.
DoubleTimesInt(x, a) ==
    [neg |-> (x.neg /\ a > 0) \/ (~x.neg /\ a < 0),
     mag |-> RoundSig(LMulNat(x.mag, Abs(a)), FALSE)]

\* The sum of two doubles, as a double.
DoubleSum(x, y) ==
    IF x.neg = y.neg
    THEN [neg |-> x.neg, mag |-> RoundSig(LAdd(x.mag, y.mag), FALSE)]
    ELSE IF LLess(x.mag, y.mag)
         THEN [neg |-> y.neg, mag |-> RoundSig(LSub(y.mag, x.mag), FALSE)]
         ELSE [neg |-> x.neg, mag |-> RoundSig(LSub(x.mag, y.mag), FALSE)]

\* One half and one, in units of 2^-FracBits.
HalfUnit == ShlLimbs(<<LimbBase \div 2>>, FracLimbs - 1)

OneUnit == ShlLimbs(<<1>>, FracLimbs)

\* The rules round() of the expression engine may follow on a double: half
\* away from zero (std::round) or half up (Qt 5 qRound64).
RoundRules == {"half_away", "half_up"}

\* round(x) of the expression engine for the double x.
RoundDouble(rule, x) ==
    LET away == LimbsNat(ShrLimbs(LAdd(x.mag, HalfUnit), FracLimbs))
    IN  IF ~x.neg THEN away
        ELSE IF rule = "half_away" THEN -away
        ELSE IF ~LLess(HalfUnit, x.mag) THEN 0
        ELSE -LimbsNat(ShrLimbs(LAdd(LSub(x.mag, HalfUnit),
                                     LSub(OneUnit, <<1>>)), FracLimbs))

\* The formula of line 1103 for one feature:
\* round({geb_weight/100} * "score_geb_sum_norm"
\*       + {verh_weight/100} * "score_verhaeltnis").
FinalScore(rule, gw, vw, a, b) ==
    RoundDouble(rule, DoubleSum(DoubleTimesInt(DoubleOfPercent(gw), a),
                                DoubleTimesInt(DoubleOfPercent(vw), b)))

\* ------------------------------ phase_4_quantilskala: the final score step
\* The weights tried: whole tenths from below 0 to above 100.
CompositeWeights == {10 * i : i \in (0 - MaxOver)..(10 + MaxOver)}

\* The values a component score can take.
ScoreRange == (-3)..3

\* What the final score step leaves alone.
cframe == <<qvars, rvars, runvars, p4vars, ivars, callvars, cleanvars, racevars>>

\* A feature of temp_joined before the field calculator of lines 1106-1114
\* runs, with weights that passed the check of line 997.
InitComposite ==
    /\ c_rule \in RoundRules
    /\ c_geb_weight \in CompositeWeights
    /\ c_verh_weight = 100 - c_geb_weight
    /\ c_norm \in {NULL} \cup {Some(a) : a \in ScoreRange}
    /\ c_verh \in {Some(b) : b \in ScoreRange}
    /\ final_score = NULL
    /\ cpc = "ready"
    /\ QuantileIdle
    /\ RatioIdle
    /\ RunIdle
    /\ Phase4Idle
    /\ IndexIdle
    /\ CallsIdle
    /\ CleanIdle
    /\ RaceIdle

\* The value of the formula for a feature: NULL when an operand is NULL.
FinalScoreOf(rule, gw, vw, norm, verh) ==
    IF norm = NULL \/ verh = NULL THEN NULL
    ELSE Some(FinalScore(rule, gw, vw, norm[1], verh[1]))

\* Lines 1103-1114: the field calculator writes final_score.
CompositeStep ==
    /\ cpc = "ready"
    /\ final_score' = FinalScoreOf(c_rule, c_geb_weight, c_verh_weight,
                                   c_norm, c_verh)
    /\ cpc' = "done"
    /\ UNCHANGED <<c_rule, c_geb_weight, c_verh_weight, c_norm, c_verh>>
    /\ UNCHANGED cframe

NextComposite == CompositeStep

SpecComposite == InitComposite /\ [][NextComposite]_vars

\* ----------------------------------------------------- phase_4_quantilskala
\* The files phase 4 writes, by their names.
JoinedScoreFile == "1_liegenschaftsflaechen_score_geb_sum.gpkg"
BboxFile == "2_liegenschaftsflaechen_min_boundingbox.gpkg"
ScoredBboxFile == "3_liegenschaftsflaechen_min_bbox_score_verhaeltnis.gpkg"
TempJoinedFile == "temp_joined_scores.gpkg"
TempFinalFile == "temp_final_scores.gpkg"
FinalFile == "3_liegenschaftsflaechen_joined_scores.gpkg"

\* The weights phase 4 may be called with: pairs that sum to 100 with and
\* without a negative share, and pairs that do not.
Phase4Weights == {-20, 30, 60, 70, 120}

\* score_gebaeude_sum of a block after the join: NULL for a block that
\* contains no building.
BlockSums == {NULL, Some(-2), Some(4)}

\* Width and height of a block's bounding box.
BlockShapes == {<<1, 1>>, <<1, 3>>}

BlockRows == {[sum |-> s, width |-> b[1], height |-> b[2]] :
                s \in BlockSums, b \in BlockShapes}

\* What the steps of phase 4 leave alone.
p4frame == <<qvars, rvars, runvars, cvars, ivars, callvars, cleanvars, racevars>>

\* The state at the call of phase_4_quantilskala: at most one of the
\* directories and input files is missing.
InitPhase4 ==
    /\ p4_dirs_exist \in BOOLEAN
    /\ p4_blocks_exist \in BOOLEAN
    /\ p4_gwr_exist \in BOOLEAN
    /\ Cardinality({x \in {<<1, p4_dirs_exist>>, <<2, p4_blocks_exist>>,
                           <<3, p4_gwr_exist>>} : ~x[2]}) <= 1
    /\ p4_geb_weight \in Phase4Weights
    /\ p4_verh_weight \in Phase4Weights
    /\ p4_rule \in RoundRules
    /\ \E n \in 0..MaxBlocks : blocks \in [1..n -> BlockRows]
    /\ tbl_norm = <<>>
    /\ tbl_verh = <<>>
    /\ tbl_final = <<>>
    /\ p4_files = {}
    /\ p4_steps = 0
    /\ p4_log = 0
    /\ p4_pc = "check_dirs"
    /\ p4_result = "running"
    /\ QuantileIdle
    /\ RatioIdle
    /\ RunIdle
    /\ CompositeIdle
    /\ IndexIdle
    /\ CallsIdle
    /\ CleanIdle
    /\ RaceIdle

\* Lines 994-995: both directories must exist.
P4CheckDirs ==
    /\ p4_pc = "check_dirs"
    /\ p4_pc' = IF p4_dirs_exist THEN "check_weights" ELSE "except"
    /\ UNCHANGED <<p4inputs, tbl_norm, tbl_verh, tbl_final, p4_files,
                   p4_steps, p4_log, p4_result>>
    /\ UNCHANGED p4frame

\* Mutant of P4CheckWeights: any pair of weights passes.
P4CheckWeightsAnySum ==
    /\ p4_pc = "check_weights"
    /\ p4_pc' = "check_inputs"
    /\ p4_log' = p4_log + 3
    /\ UNCHANGED <<p4inputs, tbl_norm, tbl_verh, tbl_final, p4_files,
                   p4_steps, p4_result>>
    /\ UNCHANGED p4frame

\* Lines 997-1002: the weights must sum to 100; three lines are logged.
P4CheckWeights ==
    /\ p4_pc = "check_weights"
    /\ IF p4_geb_weight + p4_verh_weight # 100
       THEN p4_pc' = "except" /\ p4_log' = p4_log
       ELSE p4_pc' = "check_inputs" /\ p4_log' = p4_log + 3
    /\ UNCHANGED <<p4inputs, tbl_norm, tbl_verh, tbl_final, p4_files,
                   p4_steps, p4_result>>
    /\ UNCHANGED p4frame

\* Lines 1005-1013: the blocks file and the building file must exist.
P4CheckInputs ==
    /\ p4_pc = "check_inputs"
    /\ IF ~p4_blocks_exist
       THEN p4_pc' = "except" /\ p4_log' = p4_log
       ELSE IF ~p4_gwr_exist
            THEN p4_pc' = "except" /\ p4_log' = p4_log + 1
            ELSE p4_pc' = "join_summary" /\ p4_log' = p4_log + 2
    /\ UNCHANGED <<p4inputs, tbl_norm, tbl_verh, tbl_final, p4_files,
                   p4_steps, p4_result>>
    /\ UNCHANGED p4frame

\* Lines 1015-1045: joinbylocationsummary writes score_gebaeude_sum for
\* every block (DISCARD_NONMATCHING is False); the field is there.
P4JoinSummary ==
    /\ p4_pc = "join_summary"
    /\ p4_steps' = p4_steps + 1
    /\ p4_files' = p4_files \cup {JoinedScoreFile}
    /\ p4_log' = p4_log + 3
    /\ p4_pc' = "quantile"
    /\ UNCHANGED <<p4inputs, tbl_norm, tbl_verh, tbl_final, p4_result>>
    /\ UNCHANGED p4frame

\* The values calculate_quantile_score collects from score_gebaeude_sum.
BlockValues == Collected([f \in 1..Len(blocks) |->
                   IF blocks[f].sum = NULL THEN SrcNull
                   ELSE SrcNum(blocks[f].sum[1])], 1)

\* Lines 1047-1049: calculate_quantile_score(layer, 'score_gebaeude_sum',
\* "score_geb_sum_norm"): it raises without a valid value and scores the
\* features with a valid value, leaving the others NULL.
P4QuantileScore ==
    /\ p4_pc = "quantile"
    /\ p4_log' = p4_log + 1
    /\ p4_steps' = p4_steps + 1
    /\ IF BlockValues = <<>>
       THEN /\ p4_pc' = "except"
            /\ UNCHANGED tbl_norm
       ELSE /\ tbl_norm' = [f \in 1..Len(blocks) |->
                   IF blocks[f].sum = NULL THEN NULL
                   ELSE Some(Score(blocks[f].sum[1],
                                   Quantiles(Sort(BlockValues))))]
            /\ p4_pc' = "bbox"
    /\ UNCHANGED <<p4inputs, tbl_verh, tbl_final, p4_files, p4_result>>
    /\ UNCHANGED p4frame

\* Lines 1051-1058: orientedminimumboundingbox writes the bounding boxes.
P4BoundingBox ==
    /\ p4_pc = "bbox"
    /\ p4_steps' = p4_steps + 1
    /\ p4_files' = p4_files \cup {BboxFile}
    /\ p4_log' = p4_log + 2
    /\ p4_pc' = "ratio"
    /\ UNCHANGED <<p4inputs, tbl_norm, tbl_verh, tbl_final, p4_result>>
    /\ UNCHANGED p4frame

\* Lines 1060-1082: the field calculator writes score_verhaeltnis for
\* every bounding box.
P4RatioScore ==
    /\ p4_pc = "ratio"
    /\ tbl_verh' = [f \in 1..Len(blocks) |->
                      Some(RatioScore(blocks[f].width, blocks[f].height))]
    /\ p4_steps' = p4_steps + 1
    /\ p4_files' = p4_files \cup {ScoredBboxFile}
    /\ p4_log' = p4_log + 2
    /\ p4_pc' = "join_scores"
    /\ UNCHANGED <<p4inputs, tbl_norm, tbl_final, p4_result>>
    /\ UNCHANGED p4frame

\* Lines 1084-1098: joinattributestable copies score_verhaeltnis to the
\* blocks by fid.
P4JoinScores ==
    /\ p4_pc = "join_scores"
    /\ p4_steps' = p4_steps + 1
    /\ p4_files' = p4_files \cup {TempJoinedFile}
    /\ p4_log' = p4_log + 2
    /\ p4_pc' = "final_score"
    /\ UNCHANGED <<p4inputs, tbl_norm, tbl_verh, tbl_final, p4_result>>
    /\ UNCHANGED p4frame

\* Lines 1100-1115: the field calculator writes final_score.
P4FinalScore ==
    /\ p4_pc = "final_score"
    /\ tbl_final' = [f \in 1..Len(blocks) |->
                       FinalScoreOf(p4_rule, p4_geb_weight, p4_verh_weight,
                                    tbl_norm[f], tbl_verh[f])]
    /\ p4_steps' = p4_steps + 1
    /\ p4_files' = p4_files \cup {TempFinalFile}
    /\ p4_log' = p4_log + 3
    /\ p4_pc' = "retain"
    /\ UNCHANGED <<p4inputs, tbl_norm, tbl_verh, p4_result>>
    /\ UNCHANGED p4frame

\* Lines 1117-1125: retainfields writes the final file with the score
\* fields of every block.
P4RetainFields ==
    /\ p4_pc = "retain"
    /\ p4_steps' = p4_steps + 1
    /\ p4_files' = p4_files \cup {FinalFile}
    /\ p4_log' = p4_log + 2
    /\ p4_pc' = "cleanup"
    /\ UNCHANGED <<p4inputs, tbl_norm, tbl_verh, tbl_final, p4_result>>
    /\ UNCHANGED p4frame

\* Lines 1127-1136: the two temporary files are removed and phase 4
\* returns.
P4Cleanup ==
    /\ p4_pc = "cleanup"
    /\ p4_files' = p4_files \ {TempJoinedFile, TempFinalFile}
    /\ p4_log' = p4_log + 3
    /\ p4_pc' = "done"
    /\ p4_result' = "returned"
    /\ UNCHANGED <<p4inputs, tbl_norm, tbl_verh, tbl_final, p4_steps>>
    /\ UNCHANGED p4frame

\* Lines 1138-1141: the error is logged and raised again.
P4Except ==
    /\ p4_pc = "except"
    /\ p4_log' = p4_log + 2
    /\ p4_pc' = "done"
    /\ p4_result' = "raised"
    /\ UNCHANGED <<p4inputs, tbl_norm, tbl_verh, tbl_final, p4_files,
                   p4_steps>>
    /\ UNCHANGED p4frame

NextPhase4 ==
    \/ P4CheckDirs
    \/ P4CheckWeights
    \/ P4CheckInputs
    \/ P4JoinSummary
    \/ P4QuantileScore
    \/ P4BoundingBox
    \/ P4RatioScore
    \/ P4JoinScores
    \/ P4FinalScore
    \/ P4RetainFields
    \/ P4Cleanup
    \/ P4Except

SpecPhase4 == InitPhase4 /\ [][NextPhase4]_vars

\* ------------------------ phase_2_bereinigung_segmentierung: the cleaning
\* What the cleaning step leaves alone.
cleanframe == <<qvars, rvars, runvars, p4vars, cvars, ivars, callvars, racevars>>

\* Two lines intersect: a line intersects itself.
LinesIntersect(a, b) == a = b \/ {a, b} \in touching

\* The state before line 719: the filtered network is not empty (line 643)
\* and the dissolved buffer exists (line 712).
InitClean ==
    /\ \E n \in 1..MaxLines : gefiltert = 1..n
    /\ hits_buffer \in SUBSET gefiltert
    /\ touching \in SUBSET {{a, b} : a, b \in gefiltert}
    /\ \A pair \in touching : Cardinality(pair) = 2
    /\ negate_honoured \in BOOLEAN
    /\ intersecting_lines = {}
    /\ bereinigt = {}
    /\ clean_pc = "extract_intersecting"
    /\ clean_result = "running"
    /\ QuantileIdle
    /\ RatioIdle
    /\ RunIdle
    /\ Phase4Idle
    /\ CompositeIdle
    /\ IndexIdle
    /\ CallsIdle
    /\ RaceIdle

\* Lines 722-732: extractbylocation keeps the filtered lines that intersect
\* the dissolved buffer.
ExtractIntersecting ==
    /\ clean_pc = "extract_intersecting"
    /\ intersecting_lines' = hits_buffer
    /\ clean_pc' = "extract_clean"
    /\ UNCHANGED <<gefiltert, hits_buffer, touching, negate_honoured,
                   bereinigt, clean_result>>
    /\ UNCHANGED cleanframe

\* Lines 735-741: extractbylocation with INTERSECT intersecting_lines and
\* 'NEGATE': True selects the filtered lines that intersect one of
\* intersecting_lines; a build that obeys NEGATE writes the other lines, a
\* build that does not know the parameter writes the selected ones.
ExtractClean ==
    /\ clean_pc = "extract_clean"
    /\ LET selected == {a \in gefiltert :
                          \E b \in intersecting_lines : LinesIntersect(a, b)}
       IN  bereinigt' = IF negate_honoured THEN gefiltert \ selected
                        ELSE selected
    /\ clean_pc' = "check_clean"
    /\ UNCHANGED <<gefiltert, hits_buffer, touching, negate_honoured,
                   intersecting_lines, clean_result>>
    /\ UNCHANGED cleanframe

\* Lines 743-751: an empty cleaned network is an error.
CheckClean ==
    /\ clean_pc = "check_clean"
    /\ clean_result' = IF bereinigt = {} THEN "raised" ELSE "cleaned"
    /\ clean_pc' = "done"
    /\ UNCHANGED <<gefiltert, hits_buffer, touching, negate_honoured,
                   intersecting_lines, bereinigt>>
    /\ UNCHANGED cleanframe

NextClean ==
    \/ ExtractIntersecting
    \/ ExtractClean
    \/ CheckClean

SpecClean == InitClean /\ [][NextClean]_vars

\* ------------------------------------------------------- processAlgorithm
\* Largest i for which _basisdata_superblock_i may exist before the run.
MaxExisting == 2

MAX_FOLDER_ATTEMPTS == 1000

\* The pairs (building share, ratio share) the seven labels of
\* WEIGHTING_OPTIONS show, in the order of the list.
WEIGHTING_OPTIONS ==
    << <<80, 20>>, <<70, 30>>, <<60, 40>>, <<50, 50>>, <<40, 60>>,
       <<30, 70>>, <<20, 80>> >>

\* The list SUBFOLDERS of create_unique_project_folder.
SUBFOLDERS == <<"_prepared_inputdata", "_tempdata", "_finaloutput">>

\* Paths inside the project folder ("." is the folder itself).
GwrFile == "_prepared_inputdata/gwr_bund_bs_lv95.gpkg"
KtFile == "_prepared_inputdata/gebaeudeinformationen_kt_bs_lv95.gpkg"
NetzFile == "_prepared_inputdata/mobilitaetsnetz_lv95.gpkg"
LiegenschaftenFile == "_prepared_inputdata/liegenschaftsflaechen_lv95.gpkg"
BufferFile == "_tempdata/buffer_dissolved.gpkg"
BereinigtFile == "_finaloutput/mobilitaetsnetz_bereinigt.gpkg"
BlocksFile == "_tempdata/4_liegenschaftsflaechen_blocks.gpkg"
ScoringFile == "_finaloutput/3_liegenschaftsflaechen_joined_scores.gpkg"
LogFile == "prozess_log.txt"

\* The calls of a run that may raise for a reason outside the program.
FailPoints ==
    {"none", "makedirs_top", "makedirs_sub1", "makedirs_sub2",
     "makedirs_sub3", "load_layers", "phase1", "phase2", "phase3", "phase4"}

\* The state at the call of processAlgorithm(parameters, context, feedback).
InitRun ==
    /\ dir_ok \in BOOLEAN
    /\ weight_index \in 0..6
    /\ has_gklas \in BOOLEAN
    /\ fail_at \in FailPoints
    /\ existing \in SUBSET (1..MaxExisting) \cup {1..MAX_FOLDER_ATTEMPTS}
    /\ geb_weight = 0
    /\ verh_weight = 0
    /\ index = 0
    /\ project_folder = NULL
    /\ disk = {}
    /\ started = <<>>
    /\ completed = <<>>
    /\ run_pc = "check_dir"
    /\ run_result = "running"
    /\ QuantileIdle
    /\ RatioIdle
    /\ Phase4Idle
    /\ CompositeIdle
    /\ IndexIdle
    /\ CallsIdle
    /\ CleanIdle
    /\ RaceIdle

\* What the steps of processAlgorithm leave alone.
runframe == <<qvars, rvars, p4vars, cvars, ivars, callvars, cleanvars, racevars>>

\* Lines 1291-1293: the target directory must be a directory.
CheckDir ==
    /\ run_pc = "check_dir"
    /\ IF dir_ok
       THEN run_pc' = "weights" /\ run_result' = run_result
       ELSE run_pc' = "done" /\ run_result' = "raised"
    /\ UNCHANGED <<dir_ok, weight_index, geb_weight, verh_weight, has_gklas,
                   fail_at, existing, index, project_folder, disk, started,
                   completed>>
    /\ UNCHANGED runframe

\* Mutant of ComputeWeights: the two shares are exchanged.
ComputeWeightsExchanged ==
    /\ run_pc = "weights"
    /\ verh_weight' = 80 - (weight_index * 10)
    /\ geb_weight' = 100 - verh_weight'
    /\ run_pc' = "create_folder"
    /\ UNCHANGED <<dir_ok, weight_index, has_gklas, fail_at, existing, index,
                   project_folder, disk, started, completed, run_result>>
    /\ UNCHANGED runframe

\* Lines 1295-1300: the weights of the chosen preset.
ComputeWeights ==
    /\ run_pc = "weights"
    /\ geb_weight' = 80 - (weight_index * 10)
    /\ verh_weight' = 100 - geb_weight'
    /\ run_pc' = "create_folder"
    /\ UNCHANGED <<dir_ok, weight_index, has_gklas, fail_at, existing, index,
                   project_folder, disk, started, completed, run_result>>
    /\ UNCHANGED runframe

\* create_unique_project_folder, lines 189-193: the loop starts at 1.
StartFolderSearch ==
    /\ run_pc = "create_folder"
    /\ index' = 1
    /\ run_pc' = "find_folder"
    /\ UNCHANGED <<dir_ok, weight_index, geb_weight, verh_weight, has_gklas,
                   fail_at, existing, project_folder, disk, started,
                   completed, run_result>>
    /\ UNCHANGED runframe

\* Mutant of FindFolder: a name that exists is passed over together with
\* the name after it.
FindFolderSkipsTwo ==
    /\ run_pc = "find_folder"
    /\ IF index > MAX_FOLDER_ATTEMPTS
       THEN run_pc' = "except" /\ index' = index
       ELSE IF index \in existing
            THEN run_pc' = "find_folder" /\ index' = index + 2
            ELSE run_pc' = "makedirs_top" /\ index' = index
    /\ UNCHANGED <<dir_ok, weight_index, geb_weight, verh_weight, has_gklas,
                   fail_at, existing, project_folder, disk, started,
                   completed, run_result>>
    /\ UNCHANGED runframe

\* Mutant of FindFolder: the loop has no upper limit.
FindFolderNoLimit ==
    /\ run_pc = "find_folder"
    /\ IF index \in existing
       THEN run_pc' = "find_folder" /\ index' = index + 1
       ELSE run_pc' = "makedirs_top" /\ index' = index
    /\ UNCHANGED <<dir_ok, weight_index, geb_weight, verh_weight, has_gklas,
                   fail_at, existing, project_folder, disk, started,
                   completed, run_result>>
    /\ UNCHANGED runframe

\* Lines 195-200, 207 and 211: pass over a name that exists; give up after
\* MAX_FOLDER_ATTEMPTS names.
FindFolder ==
    /\ run_pc = "find_folder"
    /\ IF index > MAX_FOLDER_ATTEMPTS
       THEN run_pc' = "except" /\ index' = index
       ELSE IF index \in existing
            THEN run_pc' = "find_folder" /\ index' = index + 1
            ELSE run_pc' = "makedirs_top" /\ index' = index
    /\ UNCHANGED <<dir_ok, weight_index, geb_weight, verh_weight, has_gklas,
                   fail_at, existing, project_folder, disk, started,
                   completed, run_result>>
    /\ UNCHANGED runframe

\* Lines 201 and 208-209: os.makedirs(full_path).
MakeTopFolder ==
    /\ run_pc = "makedirs_top"
    /\ IF fail_at = "makedirs_top"
       THEN run_pc' = "except" /\ disk' = disk
       ELSE run_pc' = "makedirs_sub" /\ disk' = disk \cup {"."}
    /\ UNCHANGED <<dir_ok, weight_index, geb_weight, verh_weight, has_gklas,
                   fail_at, existing, index, project_folder, started,
                   completed, run_result>>
    /\ UNCHANGED runframe

\* The subfolders of SUBFOLDERS that are made.
SubfoldersMade == {k \in 1..3 : SUBFOLDERS[k] \in disk}

\* Lines 202-204 and 208-209: os.makedirs of the next subfolder.
MakeSubfolder ==
    /\ run_pc = "makedirs_sub"
    /\ Cardinality(SubfoldersMade) < 3
    /\ LET k == Cardinality(SubfoldersMade) + 1 IN
         IF (k = 1 /\ fail_at = "makedirs_sub1")
              \/ (k = 2 /\ fail_at = "makedirs_sub2")
              \/ (k = 3 /\ fail_at = "makedirs_sub3")
         THEN run_pc' = "except" /\ disk' = disk
         ELSE run_pc' = run_pc /\ disk' = disk \cup {SUBFOLDERS[k]}
    /\ UNCHANGED <<dir_ok, weight_index, geb_weight, verh_weight, has_gklas,
                   fail_at, existing, index, project_folder, started,
                   completed, run_result>>
    /\ UNCHANGED runframe

\* Lines 205-206 and 1303-1313: create_unique_project_folder returns the
\* path, project_folder is assigned and the log file is written.
FolderCreated ==
    /\ run_pc = "makedirs_sub"
    /\ Cardinality(SubfoldersMade) = 3
    /\ project_folder' = Some(index)
    /\ disk' = disk \cup {LogFile}
    /\ run_pc' = "load_layers"
    /\ UNCHANGED <<dir_ok, weight_index, geb_weight, verh_weight, has_gklas,
                   fail_at, existing, index, started, completed, run_result>>
    /\ UNCHANGED runframe

\* Lines 1318-1327: every input layer must be valid and is reprojected.
LoadLayers ==
    /\ run_pc = "load_layers"
    /\ run_pc' = IF fail_at = "load_layers" THEN "except" ELSE "phase1"
    /\ UNCHANGED <<dir_ok, weight_index, geb_weight, verh_weight, has_gklas,
                   fail_at, existing, index, project_folder, disk, started,
                   completed, run_result>>
    /\ UNCHANGED runframe

\* The files phase_1_vorprozessierung exports (lines 261-269, 289, 321).
Phase1Files ==
    {NetzFile, LiegenschaftenFile, IF has_gklas THEN GwrFile ELSE KtFile}

\* Lines 1329-1336: phase_1_vorprozessierung (lines 240-372).
Phase1 ==
    /\ run_pc = "phase1"
    /\ started' = Append(started, 1)
    /\ IF fail_at = "phase1" \/ "_prepared_inputdata" \notin disk
       THEN run_pc' = "except" /\ UNCHANGED <<disk, completed>>
       ELSE /\ run_pc' = "phase2"
            /\ disk' = disk \cup Phase1Files
            /\ completed' = Append(completed, 1)
    /\ UNCHANGED <<dir_ok, weight_index, geb_weight, verh_weight, has_gklas,
                   fail_at, existing, index, project_folder, run_result>>
    /\ UNCHANGED runframe

\* Mutant of Phase2: an error of phase 2 is logged and the run goes on.
Phase2ErrorSwallowed ==
    /\ run_pc = "phase2"
    /\ started' = Append(started, 2)
    /\ IF fail_at = "phase2"
       THEN run_pc' = "detect" /\ UNCHANGED <<disk, completed>>
       ELSE /\ run_pc' = "detect"
            /\ disk' = disk \cup {BufferFile, BereinigtFile}
            /\ completed' = Append(completed, 2)
    /\ UNCHANGED <<dir_ok, weight_index, geb_weight, verh_weight, has_gklas,
                   fail_at, existing, index, project_folder, run_result>>
    /\ UNCHANGED runframe

\* Lines 1338-1347: phase_2_bereinigung_segmentierung (lines 572-843).
Phase2 ==
    /\ run_pc = "phase2"
    /\ started' = Append(started, 2)
    /\ IF \/ fail_at = "phase2"
          \/ ~({"_prepared_inputdata", "_tempdata", "_finaloutput"} \subseteq disk)
          \/ NetzFile \notin disk
       THEN run_pc' = "except" /\ UNCHANGED <<disk, completed>>
       ELSE /\ run_pc' = "detect"
            /\ disk' = disk \cup {BufferFile, BereinigtFile}
            /\ completed' = Append(completed, 2)
    /\ UNCHANGED <<dir_ok, weight_index, geb_weight, verh_weight, has_gklas,
                   fail_at, existing, index, project_folder, run_result>>
    /\ UNCHANGED runframe

\* Lines 1349-1369: the building file of phase 1 is looked up.
DetectBuildings ==
    /\ run_pc = "detect"
    /\ run_pc' = IF KtFile \in disk \/ GwrFile \in disk
                 THEN "phase3" ELSE "except"
    /\ UNCHANGED <<dir_ok, weight_index, geb_weight, verh_weight, has_gklas,
                   fail_at, existing, index, project_folder, disk, started,
                   completed, run_result>>
    /\ UNCHANGED runframe

\* result_paths["gebaeude"] of lines 1353-1366.
GebaeudePath == IF KtFile \in disk THEN KtFile ELSE GwrFile

\* Lines 1371-1385: phase_3_gebietsanalyse (lines 845-976).
Phase3 ==
    /\ run_pc = "phase3"
    /\ started' = Append(started, 3)
    /\ IF \/ fail_at = "phase3"
          \/ ~({BufferFile, LiegenschaftenFile, GebaeudePath} \subseteq disk)
          \/ BereinigtFile \notin disk
       THEN run_pc' = "except" /\ UNCHANGED <<disk, completed>>
       ELSE /\ run_pc' = "phase4"
            /\ disk' = disk \cup {BlocksFile}
            /\ completed' = Append(completed, 3)
    /\ UNCHANGED <<dir_ok, weight_index, geb_weight, verh_weight, has_gklas,
                   fail_at, existing, index, project_folder, run_result>>
    /\ UNCHANGED runframe

\* Lines 1387-1401: phase_4_quantilskala with its checks of lines 994-1012:
\* the folders, the sum of the weights, the blocks and the building file
\* gwr_bund_bs_lv95.gpkg.
Phase4 ==
    /\ run_pc = "phase4"
    /\ started' = Append(started, 4)
    /\ IF \/ fail_at = "phase4"
          \/ ~({"_tempdata", "_finaloutput"} \subseteq disk)
          \/ geb_weight + verh_weight # 100
          \/ BlocksFile \notin disk
          \/ GwrFile \notin disk
       THEN run_pc' = "except" /\ UNCHANGED <<disk, completed>>
       ELSE /\ run_pc' = "return"
            /\ disk' = disk \cup {ScoringFile}
            /\ completed' = Append(completed, 4)
    /\ UNCHANGED <<dir_ok, weight_index, geb_weight, verh_weight, has_gklas,
                   fail_at, existing, index, project_folder, run_result>>
    /\ UNCHANGED runframe

\* Lines 1403-1407: the result dictionary is returned.
ReturnResult ==
    /\ run_pc = "return"
    /\ run_pc' = "done"
    /\ run_result' = "returned"
    /\ UNCHANGED <<dir_ok, weight_index, geb_weight, verh_weight, has_gklas,
                   fail_at, existing, index, project_folder, disk, started,
                   completed>>
    /\ UNCHANGED runframe

\* Lines 1409-1413: the project folder, if the variable names one, is
\* removed with all it holds, and the error is raised.
RunExcept ==
    /\ run_pc = "except"
    /\ disk' = IF project_folder # NULL /\ "." \in disk THEN {} ELSE disk
    /\ run_pc' = "done"
    /\ run_result' = "raised"
    /\ UNCHANGED <<dir_ok, weight_index, geb_weight, verh_weight, has_gklas,
                   fail_at, existing, index, project_folder, started,
                   completed>>
    /\ UNCHANGED runframe

NextRun ==
    \/ CheckDir
    \/ ComputeWeights
    \/ StartFolderSearch
    \/ FindFolder
    \/ MakeTopFolder
    \/ MakeSubfolder
    \/ FolderCreated
    \/ LoadLayers
    \/ Phase1
    \/ Phase2
    \/ DetectBuildings
    \/ Phase3
    \/ Phase4
    \/ ReturnResult
    \/ RunExcept

SpecRun == InitRun /\ [][NextRun]_vars

\* ------------------------- processAlgorithm: two runs in one target folder
\* The two runs.
Runs == {1, 2}

\* What the steps of the two runs leave alone.
raceframe == <<qvars, rvars, runvars, p4vars, cvars, ivars, callvars,
               cleanvars>>

\* Two calls of processAlgorithm with the same target directory, both at
\* line 1303, index = 1 (line 192).
InitRace ==
    /\ r_dirs \in SUBSET (1..MaxExisting)
    /\ r_index = [p \in Runs |-> 1]
    /\ r_made = [p \in Runs |-> NULL]
    /\ r_project_folder = [p \in Runs |-> NULL]
    /\ r_pc = [p \in Runs |-> "check_exists"]
    /\ r_result = [p \in Runs |-> "running"]
    /\ QuantileIdle
    /\ RatioIdle
    /\ RunIdle
    /\ Phase4Idle
    /\ CompositeIdle
    /\ IndexIdle
    /\ CallsIdle
    /\ CleanIdle

\* Lines 195-200, 207 and 211 in run p: os.path.exists(full_path).
RaceCheckExists(p) ==
    /\ r_pc[p] = "check_exists"
    /\ IF r_index[p] > MAX_FOLDER_ATTEMPTS
       THEN r_pc' = [r_pc EXCEPT ![p] = "except"] /\ r_index' = r_index
       ELSE IF r_index[p] \in r_dirs
            THEN /\ r_index' = [r_index EXCEPT ![p] = r_index[p] + 1]
                 /\ r_pc' = r_pc
            ELSE /\ r_pc' = [r_pc EXCEPT ![p] = "makedirs"]
                 /\ r_index' = r_index
    /\ UNCHANGED <<r_dirs, r_made, r_project_folder, r_result>>
    /\ UNCHANGED raceframe

\* Mutant of RaceMakedirs: the folder is made as with exist_ok=True.
RaceMakedirsExistOk(p) ==
    /\ r_pc[p] = "makedirs"
    /\ r_dirs' = r_dirs \cup {r_index[p]}
    /\ r_made' = [r_made EXCEPT ![p] = Some(r_index[p])]
    /\ r_pc' = [r_pc EXCEPT ![p] = "subfolders"]
    /\ UNCHANGED <<r_index, r_project_folder, r_result>>
    /\ UNCHANGED raceframe

\* Lines 201 and 208-209 in run p: os.makedirs(full_path) makes the folder,
\* or raises FileExistsError when the name exists by now.
RaceMakedirs(p) ==
    /\ r_pc[p] = "makedirs"
    /\ IF r_index[p] \in r_dirs
       THEN /\ r_pc' = [r_pc EXCEPT ![p] = "except"]
            /\ UNCHANGED <<r_dirs, r_made>>
       ELSE /\ r_dirs' = r_dirs \cup {r_index[p]}
            /\ r_made' = [r_made EXCEPT ![p] = Some(r_index[p])]
            /\ r_pc' = [r_pc EXCEPT ![p] = "subfolders"]
    /\ UNCHANGED <<r_index, r_project_folder, r_result>>
    /\ UNCHANGED raceframe

\* Lines 202-206 and 1303 in run p: the subfolders are made, the path is
\* returned and assigned to project_folder.
RaceSubfolders(p) ==
    /\ r_pc[p] = "subfolders"
    /\ r_project_folder' = [r_project_folder EXCEPT ![p] = r_made[p]]
    /\ r_pc' = [r_pc EXCEPT ![p] = "working"]
    /\ UNCHANGED <<r_dirs, r_index, r_made, r_result>>
    /\ UNCHANGED raceframe

\* Lines 1305-1407 in run p: the phases work in project_folder and the run
\* returns, or a step raises.
RaceWork(p) ==
    /\ r_pc[p] = "working"
    /\ \E ok \in BOOLEAN :
         IF ok
         THEN /\ r_pc' = [r_pc EXCEPT ![p] = "done"]
              /\ r_result' = [r_result EXCEPT ![p] = "returned"]
         ELSE /\ r_pc' = [r_pc EXCEPT ![p] = "except"]
              /\ r_result' = r_result
    /\ UNCHANGED <<r_dirs, r_index, r_made, r_project_folder>>
    /\ UNCHANGED raceframe

\* Lines 1409-1413 in run p: shutil.rmtree(project_folder) if it is set
\* and is a directory; the error is raised again.
RaceExcept(p) ==
    /\ r_pc[p] = "except"
    /\ r_dirs' = IF r_project_folder[p] # NULL
                 THEN r_dirs \ {r_project_folder[p][1]}
                 ELSE r_dirs
    /\ r_pc' = [r_pc EXCEPT ![p] = "done"]
    /\ r_result' = [r_result EXCEPT ![p] = "raised"]
    /\ UNCHANGED <<r_index, r_made, r_project_folder>>
    /\ UNCHANGED raceframe

NextRace ==
    \E p \in Runs :
        \/ RaceCheckExists(p)
        \/ RaceMakedirs(p)
        \/ RaceSubfolders(p)
        \/ RaceWork(p)
        \/ RaceExcept(p)

SpecRace == InitRace /\ [][NextRace]_vars

\* A run whose steps are taken as long as one is possible: the interpreter
\* goes on executing processAlgorithm until it returns or raises.
SpecRunFair == SpecRun /\ WF_vars(NextRun)

\* ------------------------------------------------------------------- claims
\* The features whose source value is valid (non-null, non-empty, numeric).
ValidFeatures == {f \in Features : ValidSrc(src[f])}

\* The scoring loop has passed feature f and the call has not raised.
Scored(f) ==
    \/ pc = "score" /\ f < cursor
    \/ pc = "done" /\ result = "returned"

\* The breakpoints have been computed.
QuantilesKnown == quantiles # <<>>

\* The call returned normally.
Returned == pc = "done" /\ result = "returned"

\* The source values of the layer are exactly the numbers of s, in order.
SampleIs(s) == src = [f \in 1..Len(s) |-> SrcNum(s[f])]

\* C1: every feature with a valid source value v is given the score of the
\* inclusive-upper-bound ladder over q1..q6, that is -3 plus the number of
\* breakpoints strictly smaller than v.
C1_LadderScore ==
    \A f \in ValidFeatures :
        Scored(f) =>
            View(f) = Some(-3 + Cardinality(
                {k \in 1..6 : quantiles[k] < ToFloat(src[f])}))

C1_Witness ==
    /\ Returned
    /\ \E f, g, h \in ValidFeatures :
         View(f) = Some(3) /\ View(g) = Some(0) /\ View(h) = Some(-3)

\* C2: every valid value is given one score in -3..3, and for two features
\* of the same call with valid values x <= y, score(x) <= score(y).
C2_Monotonic ==
    Returned =>
        /\ \A f \in ValidFeatures : \E s \in -3..3 : View(f) = Some(s)
        /\ \A f, g \in ValidFeatures :
             ToFloat(src[f]) <= ToFloat(src[g]) => View(f)[1] <= View(g)[1]

C2_Witness ==
    /\ Returned
    /\ \E f, g \in ValidFeatures :
         /\ f < g
         /\ ToFloat(src[f]) > ToFloat(src[g])
         /\ View(f)[1] > View(g)[1]

\* C3: breakpoint k is the sorted value at index floor(n * k / 7); for the
\* sample [1,2,3,4,5,6,7] the indices are [1..6] and the breakpoints
\* [2,3,4,5,6,7].
C3_ExactIndices ==
    QuantilesKnown =>
        /\ \A k \in 1..6 :
             /\ QuantileIndex(Len(values), k) = QuantileIndexExact(Len(values), k)
             /\ quantiles[k] = values[QuantileIndexExact(Len(values), k) + 1]
        /\ values = <<1, 2, 3, 4, 5, 6, 7>> => quantiles = <<2, 3, 4, 5, 6, 7>>

\* C4: a value scores 3 only if it is strictly greater than breakpoint 6, a
\* value equal to breakpoint 6 scores at most 2, and in the sample
\* [1,2,3,4,5,6,7] the value 1 scores -3, the value 7 scores 2 and no value
\* scores 3.
C4_TopBucket ==
    /\ \A f \in ValidFeatures :
         Scored(f) =>
            /\ View(f) = Some(3) => ToFloat(src[f]) > quantiles[6]
            /\ ToFloat(src[f]) = quantiles[6] => View(f)[1] <= 2
    /\ (Returned /\ SampleIs(<<1, 2, 3, 4, 5, 6, 7>>)) =>
         /\ View(1) = Some(-3)
         /\ View(7) = Some(2)
         /\ \A f \in Features : View(f) # Some(3)

C4_Witness ==
    /\ Returned
    /\ SampleIs(<<1, 2, 3, 4, 5, 6, 7>>)
    /\ View(7) = Some(2)

\* The layer holds 7 features with one and the same valid value.
SevenIdentical ==
    /\ Len(src) = 7
    /\ \A f \in Features : ValidSrc(src[f]) /\ ToFloat(src[f]) = ToFloat(src[1])

\* C5, as stated: in a sample of 7 identical values the value scores 3.
C5_IdenticalScoresThree ==
    (Returned /\ SevenIdentical) => \A f \in Features : View(f) = Some(3)

\* C5, amended: in a sample of 7 identical values v all six breakpoints are
\* v and the value scores -3.
C5_IdenticalScoresMinusThree ==
    (Returned /\ SevenIdentical) =>
        /\ \A k \in 1..6 : quantiles[k] = ToFloat(src[1])
        /\ \A f \in Features : View(f) = Some(-3)

C5_Witness ==
    /\ Returned
    /\ SevenIdentical
    /\ View(7) = Some(-3)

\* C6: the six breakpoints are non-decreasing, each is a value of the
\* sample, and for a sample of identical values all six equal that value.
C6_Breakpoints ==
    QuantilesKnown =>
        /\ \A k \in 1..5 : quantiles[k] <= quantiles[k + 1]
        /\ \A k \in 1..6 :
             \E f \in ValidFeatures : quantiles[k] = ToFloat(src[f])
        /\ \A f \in ValidFeatures :
             (\A g \in ValidFeatures : ToFloat(src[g]) = ToFloat(src[f])) =>
                 \A k \in 1..6 : quantiles[k] = ToFloat(src[f])

C6_Witness ==
    /\ QuantilesKnown
    /\ Len(src) = 3
    /\ \A f \in Features : ValidSrc(src[f])
    /\ ToFloat(src[1]) > ToFloat(src[2])
    /\ ToFloat(src[3]) > ToFloat(src[1])
    /\ quantiles[1] < quantiles[6]

\* C7: without any valid source value the call raises, before the target
\* field is created and before any value is written: the layer is as it was.
C7_EmptyRaises ==
    ValidFeatures = {} =>
        /\ result # "returned"
        /\ pc = "done" => result = "raised"
        /\ hasField = pre.hasField
        /\ prov = pre.prov
        /\ src = pre.src
        /\ editBuf = NoEdits(Len(src))
        /\ ~editable

C7_Witness ==
    /\ pc = "done"
    /\ result = "raised"
    /\ srcFieldPresent
    /\ ~pre.hasField
    /\ \E f, g \in Features : src[f] = SrcText /\ src[g] = SrcNull

\* C8: an unconvertible source value never aborts the call: with at least
\* one valid value the call returns, the sample holds the valid values only,
\* and every feature with a valid value is scored.
C8_BadValueSkipped ==
    (srcFieldPresent /\ ValidFeatures # {}) =>
        /\ pc # "except"
        /\ result # "raised"
        /\ pc \notin {"validate", "collect"} =>
             /\ Len(values) = Cardinality(ValidFeatures)
             /\ {values[i] : i \in 1..Len(values)}
                  = {ToFloat(src[f]) : f \in ValidFeatures}
        /\ pc = "done" =>
             /\ result = "returned"
             /\ \A f \in ValidFeatures : \E s \in -3..3 : View(f) = Some(s)

C8_Witness ==
    /\ Returned
    /\ \E f, g \in Features :
         /\ f < g
         /\ src[f] = SrcText
         /\ ValidSrc(src[g])
         /\ View(g) # NULL
         /\ Len(values) < Len(src)

\* C9: the call creates the target field if it is absent, and a feature
\* with a null, empty or unconvertible source value keeps the target value
\* it had before the call (NULL if the field is new).
C9_TargetFrame ==
    /\ Returned => hasField
    /\ \A f \in Features \ ValidFeatures :
         /\ View(f) = pre.prov[f]
         /\ prov[f] = pre.prov[f]
         /\ ~pre.hasField => View(f) = NULL

C9_Witness ==
    /\ Returned
    /\ pre.hasField
    /\ \E f, g \in Features :
         /\ ~ValidSrc(src[f])
         /\ pre.prov[f] = Some(7)
         /\ View(f) = Some(7)
         /\ ValidSrc(src[g])
         /\ pre.prov[g] = Some(7)
         /\ View(g) # Some(7)

\* C10: for width >= 0 and height > 0, with p = 100 * width / height, the
\* ratio score is 3 if p >= 85.7, 2 if p >= 71.4, 1 if p >= 57.1, 0 if
\* p >= 42.8, -1 if p >= 28.5, -2 if p >= 14.2, else -3; p = 100 gives 3,
\* p = 50 gives 0, p = 10 gives -3 and width 0 gives -3.
C10_RatioLadder ==
    (rpc = "done" /\ height > 0) =>
        /\ score_verhaeltnis = Some(-3 + Cardinality(
               {t \in {142, 285, 428, 571, 714, 857} :
                    1000 * width >= t * height}))
        /\ width = height => score_verhaeltnis = Some(3)
        /\ 2 * width = height => score_verhaeltnis = Some(0)
        /\ 10 * width = height => score_verhaeltnis = Some(-3)
        /\ width = 0 => score_verhaeltnis = Some(-3)

C10_Witness ==
    /\ rpc = "done"
    /\ height = 1000
    /\ width = 428
    /\ score_verhaeltnis = Some(0)


\* C11, as stated: a feature whose bounding-box height is zero is not given
\* a ratio score in -3..3; the ratio step signals a division by zero.
C11_ZeroHeightNotScored ==
    (rpc = "done" /\ height = 0) =>
        score_verhaeltnis \notin {Some(s) : s \in -3..3}

\* C20: the call changes nothing on the layer except the target field: the
\* source values (as every field the call does not name) and the set of
\* features are the same at every point of the call, whether it returns or
\* raises.
C20_OnlyTargetChanges ==
    /\ src = pre.src
    /\ Len(prov) = Len(pre.prov)
    /\ Len(editBuf) = Len(pre.prov)
    /\ Len(src) = Len(pre.prov)

C20_Witness ==
    /\ pc = "done"
    /\ result = "returned"
    /\ \E f, g \in Features :
         /\ ValidSrc(src[f])
         /\ ~ValidSrc(src[g])
         /\ View(f) # pre.prov[f]


\* C15: for every preset index 0..6 the weights processAlgorithm passes to
\* phase 4 are non-negative integers with sum 100, and they are the pair the
\* label of that index shows: 80/20, 70/30, 60/40, 50/50, 40/60, 30/70, 20/80.
C15_PresetWeights ==
    (dir_ok /\ run_pc \notin {"idle", "check_dir", "weights"}) =>
        /\ geb_weight \in 0..100
        /\ verh_weight \in 0..100
        /\ geb_weight + verh_weight = 100
        /\ <<geb_weight, verh_weight>> = WEIGHTING_OPTIONS[weight_index + 1]
        /\ <<geb_weight, verh_weight>> =
             << <<80, 20>>, <<70, 30>>, <<60, 40>>, <<50, 50>>, <<40, 60>>,
                <<30, 70>>, <<20, 80>> >>[weight_index + 1]

C15_Witness ==
    /\ run_pc = "phase4"
    /\ weight_index = 6
    /\ geb_weight = 20
    /\ verh_weight = 80

\* C16, as stated: whenever processAlgorithm ends in an error, no folder or
\* file created by the run remains on disk.
C16_NoPartialOutput ==
    (run_pc = "done" /\ run_result = "raised") => disk = {}

\* C18, as stated: a run with a building layer without GKLAS (cantonal
\* data) and all other inputs valid passes phases 1 to 4 and returns the
\* result score layer.
C18_CantonalRunReturns ==
    (run_pc = "done" /\ dir_ok /\ fail_at = "none" /\ ~has_gklas) =>
        /\ run_result = "returned"
        /\ completed = <<1, 2, 3, 4>>
        /\ ScoringFile \in disk

\* C19: the phases run in the order 1, 2, 3, 4; a phase starts only after
\* the previous one has completed without error, a failing phase prevents
\* every later phase from starting, and the result is returned only after
\* phase 4 has completed.
C19_PhaseOrder ==
    /\ \A i \in 1..Len(started) : started[i] = i
    /\ \A i \in 1..Len(completed) : completed[i] = i
    /\ Len(completed) <= Len(started)
    /\ Len(started) <= Len(completed) + 1
    /\ Len(started) > Len(completed) =>
         (run_pc \in {"except", "done"} /\ run_result # "returned")
    /\ \A k \in 1..4 :
         fail_at = <<"phase1", "phase2", "phase3", "phase4">>[k] =>
             (Len(started) <= k /\ Len(completed) < k)
    /\ (run_result = "returned" \/ run_pc = "return") =>
         completed = <<1, 2, 3, 4>>

C19_Witness ==
    /\ run_pc = "done"
    /\ run_result = "raised"
    /\ fail_at = "phase2"
    /\ started = <<1, 2>>
    /\ completed = <<1>>

\* The exact value of the weighted sum, in hundredths.
ExactHundredths == c_geb_weight * c_norm[1] + c_verh_weight * c_verh[1]

\* The integer nearest to s / 100, a tie resolved by the rule.
NearestByRule(rule, s) ==
    IF rule = "half_up" \/ s >= 0 THEN (s + 50) \div 100
    ELSE 0 - ((50 - s) \div 100)

\* C12: for every accepted weight pair and all component scores a, b in
\* -3..3, final_score is the integer nearest to
\* (geb_weight * a + verh_weight * b) / 100, a tie at exactly .5 resolved by
\* the one rule of the engine; weights 80/20 with a = 3, b = -3 give 2.
C12_NearestFixedRule ==
    (cpc = "done" /\ c_norm # NULL) =>
        /\ final_score = Some(NearestByRule(c_rule, ExactHundredths))
        /\ (c_geb_weight = 80 /\ c_norm = Some(3) /\ c_verh = Some(-3))
             => final_score = Some(2)

\* The score table of the final file, once phase 4 has returned.
TableRows == 1..Len(blocks)

\* C13: phase_4_quantilskala called with weights that do not sum to 100
\* (e.g. 60 and 30) fails with an error before it runs any geoprocessing
\* step or writes any file of phase 4.
C13_BadSumFailsFirst ==
    (p4_pc # "idle" /\ p4_geb_weight + p4_verh_weight # 100) =>
        /\ p4_steps = 0
        /\ p4_files = {}
        /\ p4_pc = "done" => p4_result = "raised"

C13_Witness ==
    /\ p4_geb_weight = 60
    /\ p4_verh_weight = 30
    /\ p4_dirs_exist
    /\ p4_pc = "done"
    /\ p4_result = "raised"

\* C14: phase_4_quantilskala fails whenever either weight is negative, also
\* when the two weights sum to 100 (e.g. 120 and -20).
C14_NegativeWeightRejected ==
    (p4_pc = "done" /\ (p4_geb_weight < 0 \/ p4_verh_weight < 0)) =>
        p4_result = "raised"

\* C17: whenever phase 4 returns, every feature of the result layer has a
\* non-null score_geb_sum_norm, score_verhaeltnis and final_score, also
\* the blocks that contain no building.
C17_TableFullyPopulated ==
    p4_result = "returned" =>
        \A f \in TableRows :
            /\ tbl_norm[f] # NULL
            /\ tbl_verh[f] # NULL
            /\ tbl_final[f] # NULL

\* C22: for every weight pair phase 4 accepts and all component scores in
\* -3..3, final_score lies in -3..3.
C22_FinalScoreInRange ==
    (cpc = "done" /\ final_score # NULL) => final_score[1] \in ScoreRange

\* C27: calculate_quantile_score returns normally only if the scores were
\* persisted: the provider holds the score of every valid feature, no edit
\* is pending and the layer is not in editing mode.
C27_ReturnMeansSaved ==
    Returned =>
        /\ ~editable
        /\ editBuf = NoEdits(Len(src))
        /\ \A f \in ValidFeatures :
               prov[f] = Some(Score(ToFloat(src[f]), quantiles))

\* C29: in a call with at most 7 valid values no feature is given the
\* score 3, and in every call the features that hold the smallest valid
\* value are given -3.
C29_SmallSampleNoTop ==
    Returned =>
        /\ Len(values) <= 7 => \A f \in ValidFeatures : View(f) # Some(3)
        /\ \A f \in ValidFeatures :
               ToFloat(src[f]) = values[1] => View(f) = Some(-3)

C29_Witness ==
    /\ Returned
    /\ Len(values) = 7
    /\ \E f, g \in ValidFeatures : View(f) = Some(2) /\ View(g) = Some(-3)

\* create_unique_project_folder is being executed.
InFolderSearch ==
    run_pc \in {"create_folder", "find_folder", "makedirs_top", "makedirs_sub"}

\* C23: on success create_unique_project_folder returns the folder
\* _basisdata_superblock_i for the smallest i in 1..1000 that did not exist,
\* newly created with exactly the three subfolders; no folder that existed
\* is reused.
C23_SmallestFreeFolder ==
    project_folder # NULL =>
        /\ project_folder[1] \in 1..MAX_FOLDER_ATTEMPTS
        /\ project_folder[1] \notin existing
        /\ \A j \in 1..(project_folder[1] - 1) : j \in existing
        /\ run_pc = "load_layers" =>
             disk = {".", "_prepared_inputdata", "_tempdata", "_finaloutput",
                     LogFile}

C23_Witness ==
    /\ run_pc = "load_layers"
    /\ existing = {1}
    /\ project_folder = Some(2)

\* C24: create_unique_project_folder always terminates; it examines at most
\* MAX_FOLDER_ATTEMPTS names, and when all of them exist it fails without
\* creating any folder.
C24_FolderSearchEnds ==
    /\ [](index <= MAX_FOLDER_ATTEMPTS + 1)
    /\ []((existing = 1..MAX_FOLDER_ATTEMPTS /\ run_pc = "done")
            => (run_result = "raised" /\ disk = {} /\ project_folder = NULL))
    /\ (InFolderSearch ~> ~InFolderSearch)

C24_Witness ==
    /\ existing = 1..MAX_FOLDER_ATTEMPTS
    /\ dir_ok
    /\ index = MAX_FOLDER_ATTEMPTS + 1
    /\ run_pc = "done"
    /\ run_result = "raised"

\* C21: for every count n >= 1 of valid values each of the six breakpoint
\* indices lies in 0..n-1.
C21_IndicesInRange ==
    ipc = "done" => \A k \in 1..6 : indices[k] \in 0..(len_values - 1)

C21_Witness ==
    /\ ipc = "done"
    /\ len_values = 7
    /\ indices[1] = 0
    /\ indices[6] = 6

\* C26: if calculate_quantile_score fails after it has opened the editing
\* session, no target value written during the call is committed and the
\* layer is not left in editing mode.
C26_FailureRollsBack ==
    (pc = "done" /\ result = "raised" /\ cursor >= 1) =>
        /\ ~editable
        /\ editBuf = NoEdits(Len(src))
        /\ prov = pre.prov

C26_Witness ==
    /\ pc = "done"
    /\ result = "raised"
    /\ updated_count >= 1
    /\ ~editable

\* The orders the features of the layer can be iterated in.
Orders == {p \in [Features -> Features] : \A f \in Features : \E i \in Features : p[i] = f}

\* C30: a second call on the same layer with the same fields leaves every
\* target value as the first call wrote it, and the scores do not depend on
\* the order the features are iterated in.
C30_IdempotentAnyOrder ==
    Returned =>
        /\ earlier_calls = 1 => \A f \in Features : View(f) = first_view[f]
        /\ \A p \in Orders : \A f \in ValidFeatures :
              View(f) = Some(Score(ToFloat(src[f]),
                  Quantiles(Sort(Collected([i \in Features |-> src[p[i]]],
                                           1)))))

C30_Witness ==
    /\ Returned
    /\ earlier_calls = 1
    /\ \E f, g \in ValidFeatures : View(f) # View(g)

\* C28: the cleaned network of phase 2 is exactly the set of filtered lines
\* that do not intersect the dissolved buffer, also for a line that touches
\* a removed line.
C28_CleanedIsOutsideBuffer ==
    clean_result = "cleaned" => bereinigt = gefiltert \ hits_buffer

\* Run p works in the folder it made: from its os.makedirs to its end.
WorksIn(p, i) ==
    /\ r_made[p] = Some(i)
    /\ r_pc[p] \in {"subfolders", "working"}

\* C25: two runs with the same target directory never work in the same
\* project folder, and the error cleanup of one run never deletes the
\* folder the other run works in: that folder stays on disk.
C25_RunsKeepApart ==
    \A p, q \in Runs : \A i \in 1..(MaxExisting + 2) :
        WorksIn(p, i) =>
            /\ i \in r_dirs
            /\ (p # q => ~WorksIn(q, i))

C25_Witness ==
    /\ r_pc[1] = "done"
    /\ r_result[1] = "raised"
    /\ r_project_folder[1] = Some(1)
    /\ WorksIn(2, 2)

====
